---- MODULE Spec2Model ----
(***************************************************************************)
(* A model of bccr/download.py: the three readers readYearMonth,           *)
(* readMonthYear and readIndicatorYear, each of which resolves a request,  *)
(* downloads one raw grid per chart, locates the anchor of the layout,     *)
(* flattens the sub-grid onto a calendar, optionally resamples it, and     *)
(* concatenates the per-chart results into one table.                      *)
(*                                                                         *)
(* Time stamps are month ends, numbered 12*year + (month-1); 31 December   *)
(* of year y is 12*y + 11.  A value is a fraction <<num, den>>; the        *)
(* missing value (NaN) is <<0, 0>>.  Grid cells are text.                  *)
(***************************************************************************)
EXTENDS Integers, Sequences, FiniteSets, TLC

VARIABLES reader, request, freq, pc, series, k, rawdata, rawdataList,
          fetched, log, result, err

vars == <<reader, request, freq, pc, series, k, rawdata, rawdataList,
          fetched, log, result, err>>

----------------------------------------------------------------------------
(* Bounds of the explored inputs. *)

NumCharts == 2
MaxYearRows == 2
MaxMonthCols == 3
MaxYearCols == 2
MaxIndicators == 2
MaxMissing == 1
FirstYear == 2019
MaxNumber == 2999

(* Calendar constants. *)
MonthsPerYear == 12
MonthsPerQuarter == 3

----------------------------------------------------------------------------
(* Values, text and numbers. *)

Missing == <<0, 0>>

Num(n) == <<n, 1>>

IsMissing(v) == v[2] = 0

RECURSIVE GCD(_, _)
GCD(a, b) == IF b = 0 THEN a ELSE GCD(b, a % b)

Fraction(n, d) == LET g == GCD(n, d) IN <<n \div g, d \div g>>

RECURSIVE SumNum(_)
SumNum(vs) == IF vs = <<>> THEN 0 ELSE vs[1][1] + SumNum(Tail(vs))

SelectPresent(vs) == SelectSeq(vs, LAMBDA v : ~IsMissing(v))

(* The decimal texts of the numbers a cell may hold, and their values. *)
NumberText == [n \in 0..MaxNumber |-> ToString(n)]

NumberTexts == {NumberText[n] : n \in 0..MaxNumber}

NumberOf == [s \in NumberTexts |-> CHOOSE n \in 0..MaxNumber : NumberText[n] = s]

RECURSIVE LeadingDigit(_)
LeadingDigit(n) == IF n < 10 THEN n ELSE LeadingDigit(n \div 10)

(* The texts the regular expression '^[12]' matches. *)
StartsWith1or2 == {NumberText[n] : n \in {m \in 0..MaxNumber : LeadingDigit(m) \in {1, 2}}}

MonthNames == <<"Enero", "Febrero", "Marzo", "Abril", "Mayo", "Junio", "Julio",
                "Agosto", "Septiembre", "Octubre", "Noviembre", "Diciembre">>

(* pd.to_numeric(errors='coerce') as tidy applies it to a cell. *)
to_numeric(cell) ==
    IF cell \in NumberTexts THEN Num(NumberOf[cell]) ELSE Missing

(* The year a date text "YYYY/01" or "YYYY/12" starts with. *)
ParseYear(text) == NumberOf[text]

(* np.mean over a window as pandas applies it: missing inputs are skipped. *)
MeanSkipMissing(vs) ==
    LET present == SelectPresent(vs)
    IN IF present = <<>> THEN Missing
       ELSE Fraction(SumNum(present), Len(present))

RECURSIVE SortedSeq(_)
SortedSeq(S) ==
    IF S = {} THEN <<>>
    ELSE LET m == CHOOSE x \in S : \A y \in S : x <= y
         IN <<m>> \o SortedSeq(S \ {m})

Range(s) == {s[i] : i \in DOMAIN s}

RECURSIVE Flat(_)
Flat(ss) == IF ss = <<>> THEN <<>> ELSE ss[1] \o Flat(Tail(ss))

----------------------------------------------------------------------------
(* Frames: a pandas Series (kind "series", one column) or DataFrame. *)

NoGrid == <<>>

NoResult == [kind |-> "none", index |-> <<>>, cols |-> <<>>]

NumRows(g) == Len(g)

NumCols(g) == IF g = <<>> THEN 0 ELSE Len(g[1])

(* rawdata['Vj'] : column j (0-based) of the grid. *)
Column(g, j) == [r \in 1..Len(g) |-> g[r][j + 1]]

(* rawdata.drop(rawdata.index[:n]) *)
DropRows(g, n) == SubSeq(g, n + 1, Len(g))

(* del rawdata['V0'] *)
DelV0(g) == [r \in 1..Len(g) |-> Tail(g[r])]

(* rawdata.transpose() *)
Transpose(g) == [c \in 1..NumCols(g) |-> [r \in 1..Len(g) |-> g[r][c]]]

(* rawdata.stack(dropna=False): the cells in row-major order. *)
Stack(g) == Flat(g)

(* rawdata.size *)
Size(g) == NumRows(g) * NumCols(g)
----------------------------------------------------------------------------
(* bccr/utils.py: findFirstElement, tidy, seriesAsDict. *)

Matches(pattern, cell) ==
    IF pattern = "^[12]" THEN cell \in StartsWith1or2 ELSE cell = pattern

HasMatch(pattern, column) == \E i \in DOMAIN column : Matches(pattern, column[i])

(* The 0-based position of the first cell of the column the pattern matches. *)
findFirstElement(pattern, column) ==
    (CHOOSE i \in DOMAIN column :
        /\ Matches(pattern, column[i])
        /\ \A j \in 1..(i - 1) : ~Matches(pattern, column[j])) - 1

MonthsIn(f) ==
    CASE f = "M" -> 1
      [] f = "Q" -> MonthsPerQuarter
      [] f = "A" -> MonthsPerYear

(* pd.date_range(year0 + month, periods=periods, freq=f): the first `periods`
   period ends (month ends for 'M', year ends for 'A') from the start date on. *)
date_range(year0, month, periods, f) ==
    LET start == MonthsPerYear * ParseYear(year0) + (IF month = "/12" THEN MonthsPerYear - 1 ELSE 0)
        first == MonthsIn(f) * (start \div MonthsIn(f)) + (MonthsIn(f) - 1)
    IN [freq |-> f, stamps |-> [i \in 1..periods |-> first + MonthsIn(f) * (i - 1)]]

(* A target frequency a series of the native frequency can be resampled to. *)
SupportedFrequency(native, target) ==
    IF target = "" THEN TRUE ELSE MonthsIn(target) % MonthsIn(native) = 0

WindowOf(t, f) == t \div MonthsIn(f)

WindowEnd(w, f) == MonthsIn(f) * w + (MonthsIn(f) - 1)

(* data.resample(freq).apply(np.mean): one point per calendar window between
   the first and the last stamp. *)
Resample(frame, f) ==
    LET ws == {WindowOf(frame.index[p], f) : p \in DOMAIN frame.index}
        lo == CHOOSE w \in ws : \A v \in ws : w <= v
        hi == CHOOSE w \in ws : \A v \in ws : v <= w
        InWindow(col, w) ==
            LET ps == SortedSeq({p \in DOMAIN frame.index : WindowOf(frame.index[p], f) = w})
            IN [q \in DOMAIN ps |-> col.vals[ps[q]]]
    IN [kind  |-> frame.kind,
        index |-> [i \in 1..(hi - lo + 1) |-> WindowEnd(lo + i - 1, f)],
        cols  |-> [c \in DOMAIN frame.cols |->
                     [name |-> frame.cols[c].name,
                      vals |-> [i \in 1..(hi - lo + 1) |->
                                  MeanSkipMissing(InWindow(frame.cols[c], lo + i - 1))]]]]

(* tidy(data, timeindex, freq, func, colnames): the cells made numeric, indexed
   by timeindex and named; resampled when a frequency is asked for.  `data` is
   a sequence of columns, each the cells of one series through time. *)
tidy(kind, data, timeindex, f, colnames) ==
    LET native == [kind  |-> kind,
                   index |-> timeindex.stamps,
                   cols  |-> [c \in DOMAIN data |->
                                [name |-> colnames[c],
                                 vals |-> [p \in DOMAIN data[c] |-> to_numeric(data[c][p])]]]]
    IN IF f = "" THEN native ELSE Resample(native, f)

(* seriesAsDict(series): an int becomes a one-entry mapping with an empty name. *)
seriesAsDict(req) ==
    IF req.shape = "int" THEN <<[id |-> req.id, name |-> ""]>> ELSE req.items

----------------------------------------------------------------------------
(* pd.concat(rawdataList, axis=1): always a DataFrame; the index is the sorted
   union of the inputs' indexes, the columns are the inputs' columns in order,
   names kept as they are, each value placed at its own time stamp. *)

ValueAt(frame, col, t) ==
    IF \E q \in DOMAIN frame.index : frame.index[q] = t
    THEN col.vals[CHOOSE q \in DOMAIN frame.index : frame.index[q] = t]
    ELSE Missing

(* A wrong concat: columns keyed by name, a later one replacing an earlier one. *)
concatKeyedByName(frames) ==
    LET idx == SortedSeq(UNION {Range(frames[j].index) : j \in DOMAIN frames})
        all == Flat([j \in DOMAIN frames |->
                     [c \in DOMAIN frames[j].cols |->
                        [name |-> frames[j].cols[c].name,
                         vals |-> [p \in DOMAIN idx |->
                                     ValueAt(frames[j], frames[j].cols[c], idx[p])]]]])
        last == {i \in DOMAIN all : \A j \in DOMAIN all : j > i => all[j].name # all[i].name}
        kept == SortedSeq(last)
    IN [kind |-> "frame", index |-> idx, cols |-> [i \in DOMAIN kept |-> all[kept[i]]]]

(* A wrong concat: join='inner', the index is the intersection of the inputs'. *)
concatInner(frames) ==
    LET idx == SortedSeq({t \in UNION {Range(frames[j].index) : j \in DOMAIN frames} :
                            \A j \in DOMAIN frames : t \in Range(frames[j].index)})
    IN [kind  |-> "frame",
        index |-> idx,
        cols  |-> Flat([j \in DOMAIN frames |->
                     [c \in DOMAIN frames[j].cols |->
                        [name |-> frames[j].cols[c].name,
                         vals |-> [p \in DOMAIN idx |->
                                     ValueAt(frames[j], frames[j].cols[c], idx[p])]]]])]

concat(frames) ==
    LET idx == SortedSeq(UNION {Range(frames[j].index) : j \in DOMAIN frames})
    IN [kind  |-> "frame",
        index |-> idx,
        cols  |-> Flat([j \in DOMAIN frames |->
                     [c \in DOMAIN frames[j].cols |->
                        [name |-> frames[j].cols[c].name,
                         vals |-> [p \in DOMAIN idx |->
                                     ValueAt(frames[j], frames[j].cols[c], idx[p])]]]])]
----------------------------------------------------------------------------
(* The Table Source: the grids downloadChart may return for a chart.  Row 0
   carries the chart's title and, for every chart but the first, row 1 its
   subtitle; data cells hold the text of 10 times their row-major position,
   or nothing. *)

Charts == 1..NumCharts

TitleOf(id) == IF id = 1 THEN "M1" ELSE "IPC"

IndicatorNames == <<"Agriculture", "Industry", "Services", "Trade">>

Blank(n) == [i \in 1..n |-> ""]

TitleRows(id, width) ==
    IF id = 1 THEN << <<TitleOf(id)>> \o Blank(width - 1) >>
    ELSE << <<TitleOf(id)>> \o Blank(width - 1), <<"Subtitle">> \o Blank(width - 1) >>

CellText(pos, missing) == IF pos \in missing THEN "" ELSE ToString(10 * pos)

Masks(n) == {S \in SUBSET (1..n) : Cardinality(S) <= MaxMissing}

StartYears == {FirstYear, FirstYear + 1}

(* Rows are years, columns are months. *)
YearMonthGrid(id, anchor, y0, n, w, missing) ==
    TitleRows(id, w + 1)
    \o << <<"">> \o [c \in 1..w |-> IF anchor THEN MonthNames[c] ELSE "Mes"] >>
    \o [r \in 1..n |-> <<ToString(y0 + r - 1)>>
                         \o [c \in 1..w |-> CellText((r - 1) * w + c, missing)]]

(* Rows are the twelve months, columns are years. *)
MonthYearGrid(id, anchor, y0, w, missing) ==
    TitleRows(id, w + 1)
    \o << <<"">> \o [c \in 1..w |-> ToString(y0 + c - 1)] >>
    \o [r \in 1..MonthsPerYear |-> <<IF anchor THEN MonthNames[r] ELSE "Mes">>
                         \o [c \in 1..w |-> CellText((r - 1) * w + c, missing)]]

(* Rows are indicators, columns are years.  Without the year header no cell
   of the second column begins with 1 or 2. *)
IndicatorYearGrid(id, anchor, y0, n, w, missing) ==
    TitleRows(id, w + 1)
    \o << <<"">> \o [c \in 1..w |-> IF anchor THEN ToString(y0 + c - 1) ELSE "Periodo"] >>
    \o [r \in 1..n |-> <<IndicatorNames[r]>>
                         \o [c \in 1..w |->
                               IF anchor THEN CellText((r - 1) * w + c, missing) ELSE ""]]

YearMonthGrids(id) ==
    UNION {UNION {{YearMonthGrid(id, TRUE, y0, n, w, m) :
                      y0 \in StartYears, m \in Masks(n * w)} :
                   n \in 1..MaxYearRows} : w \in 1..MaxMonthCols}
    \cup {YearMonthGrid(id, FALSE, FirstYear, 1, 1, {})}

MonthYearGrids(id) ==
    UNION {{MonthYearGrid(id, TRUE, y0, w, m) :
               y0 \in StartYears, m \in Masks(w)} :
           w \in 1..MaxYearCols}
    \cup {MonthYearGrid(id, FALSE, FirstYear, 1, {})}

IndicatorYearGrids(id) ==
    UNION {UNION {{IndicatorYearGrid(id, TRUE, y0, n, w, m) :
                      y0 \in StartYears, m \in Masks(n * w)} :
                   n \in 1..MaxIndicators} : w \in 1..MaxYearCols}
    \cup {IndicatorYearGrid(id, FALSE, FirstYear, 1, 1, {})}

SourceGrids(rd, id) ==
    CASE rd = "readYearMonth" -> YearMonthGrids(id)
      [] rd = "readMonthYear" -> MonthYearGrids(id)
      [] rd = "readIndicatorYear" -> IndicatorYearGrids(id)

----------------------------------------------------------------------------
(* Requests. *)

Readers == {"readYearMonth", "readMonthYear", "readIndicatorYear"}

Frequencies == {"", "Q", "A"}

NamesFor(rd) == IF rd = "readIndicatorYear" THEN {"", "Real_"} ELSE {"", "M1"}

RECURSIVE ItemSeqs(_, _)
ItemSeqs(rd, n) ==
    IF n = 0 THEN {<<>>}
    ELSE {Append(s, [id |-> c, name |-> nm]) :
             s \in ItemSeqs(rd, n - 1), c \in Charts, nm \in NamesFor(rd)}

Requests(rd) ==
    {[shape |-> "int", id |-> c, items |-> <<>>] : c \in Charts}
    \cup {[shape |-> "dict", id |-> 0, items |-> s] :
            s \in {t \in UNION {ItemSeqs(rd, n) : n \in 1..NumCharts} :
                      \A i, j \in DOMAIN t : i # j => t[i].id # t[j].id}}
----------------------------------------------------------------------------
(* The body of each reader's loop, from the anchor search to tidy. *)

AnchorPattern(rd) == IF rd = "readIndicatorYear" THEN "^[12]" ELSE "Enero"

(* The column each reader scans for its anchor: 'V1', 'V0', 'V1'. *)
AnchorColumn(rd) == IF rd = "readMonthYear" THEN 0 ELSE 1

NativeFrequency(rd) == IF rd = "readIndicatorYear" THEN "A" ELSE "M"

(* varName if varName else rawdata['V0'][0] *)
DisplayName(g, varName) == IF varName # "" THEN varName ELSE g[1][1]

(* rawdata.iloc[r, c] with a 0-based and possibly negative row. *)
Iloc(g, r, c) == IF r < 0 THEN g[Len(g) + r + 1][c + 1] ELSE g[r + 1][c + 1]

(* A wrong YearMonthSeries: the requested frequency is not passed on to tidy. *)
YearMonthSeriesNoResample(g, varName, f) ==
    LET h     == findFirstElement("Enero", Column(g, 1))
        rest  == DropRows(g, h + 1)
        year0 == Iloc(rest, 0, 0)
        body  == DelV0(rest)
    IN tidy("series", <<Stack(body)>>,
            date_range(year0, "/01", Size(body), "M"), "", <<varName>>)

(* A wrong YearMonthSeries: the sub-grid walked column by column. *)
YearMonthSeriesByColumn(g, varName, f) ==
    LET h     == findFirstElement("Enero", Column(g, 1))
        rest  == DropRows(g, h + 1)
        year0 == Iloc(rest, 0, 0)
        body  == DelV0(rest)
    IN tidy("series", <<Stack(Transpose(body))>>,
            date_range(year0, "/01", Size(body), "M"), f, <<varName>>)

YearMonthSeries(g, varName, f) ==
    LET h     == findFirstElement("Enero", Column(g, 1))
        rest  == DropRows(g, h + 1)
        year0 == Iloc(rest, 0, 0)
        body  == DelV0(rest)
    IN tidy("series", <<Stack(body)>>,
            date_range(year0, "/01", Size(body), "M"), f, <<varName>>)

(* A wrong MonthYearSeries: the sub-grid walked row by row, not transposed. *)
MonthYearSeriesByRow(g, varName, f) ==
    LET h     == findFirstElement("Enero", Column(g, 0))
        year0 == Iloc(g, h - 1, 1)
        body  == DelV0(DropRows(g, h))
    IN tidy("series", <<Stack(body)>>,
            date_range(year0, "/01", Size(body), "M"), f, <<varName>>)

MonthYearSeries(g, varName, f) ==
    LET h     == findFirstElement("Enero", Column(g, 0))
        year0 == Iloc(g, h - 1, 1)
        body  == DelV0(DropRows(g, h))
    IN tidy("series", <<Stack(Transpose(body))>>,
            date_range(year0, "/01", Size(body), "M"), f, <<varName>>)

(* A wrong IndicatorYearFrame: the header row kept as if it were an indicator. *)
IndicatorYearFrameKeepsHeader(g, varName, f) ==
    LET h          == findFirstElement("^[12]", Column(g, 1))
        year0      == Iloc(g, h, 1)
        rest       == DropRows(g, h)
        indicators == Column(rest, 0)
        transposed == Transpose(DelV0(rest))
    IN tidy("frame", Transpose(transposed),
            date_range(year0, "/12", NumRows(transposed), "A"), f,
            [i \in DOMAIN indicators |-> varName \o indicators[i]])

IndicatorYearFrame(g, varName, f) ==
    LET h          == findFirstElement("^[12]", Column(g, 1))
        year0      == Iloc(g, h, 1)
        rest       == DropRows(g, h + 1)
        indicators == Column(rest, 0)
        transposed == Transpose(DelV0(rest))
    IN tidy("frame", Transpose(transposed),
            date_range(year0, "/12", NumRows(transposed), "A"), f,
            [i \in DOMAIN indicators |-> varName \o indicators[i]])

----------------------------------------------------------------------------
(* The state machine of one call of a reader. *)

Init ==
    /\ reader \in Readers
    /\ request \in Requests(reader)
    /\ freq \in Frequencies
    /\ pc = "call"
    /\ series = <<>>
    /\ k = 0
    /\ rawdata = NoGrid
    /\ rawdataList = <<>>
    /\ fetched = <<>>
    /\ log = <<>>
    /\ result = NoResult
    /\ err = ""

(* A wrong Raise: the error ends the loop and what was adapted so far is returned. *)
RaiseReturnsPartial(e) ==
    /\ pc' = "done"
    /\ err' = e
    /\ result' = concat(rawdataList)
    /\ UNCHANGED <<k, rawdata, rawdataList>>

(* A wrong Raise: the failing identifier is skipped and the loop goes on. *)
RaiseSkips(e) ==
    /\ k' = k + 1
    /\ rawdata' = NoGrid
    /\ UNCHANGED <<pc, err, rawdataList, result>>

(* An exception raised inside the loop leaves the reader: nothing catches it. *)
Raise(e) ==
    /\ pc' = "error"
    /\ err' = e
    /\ UNCHANGED <<k, rawdata, rawdataList, result>>

(* A wrong LoopFinished: the loop is left after its first iteration. *)
LoopFinishedAfterOne == k >= 1

(* for chartNumber, varName in series.items(): the loop is over. *)
LoopFinished == k = Len(series)

(* series = seriesAsDict(series) *)
Resolve ==
    /\ pc = "call"
    /\ series' = seriesAsDict(request)
    /\ pc' = "loop"
    /\ UNCHANGED <<reader, request, freq, k, rawdata, rawdataList, fetched, log, result, err>>

(* rawdata = downloadChart(chartNumber, first, last, quiet) *)
DownloadChart ==
    /\ pc = "loop"
    /\ k < Len(series)
    /\ rawdata = NoGrid
    /\ log' = Append(log, [op |-> "fetch", id |-> series[k + 1].id])
    /\ \/ \E g \in SourceGrids(reader, series[k + 1].id) :
             /\ rawdata' = g
             /\ fetched' = Append(fetched, g)
             /\ UNCHANGED <<pc, err, k, rawdataList, result>>
       \/ /\ Raise("SourceUnavailable")
          /\ UNCHANGED fetched
    /\ UNCHANGED <<reader, request, freq, series>>

(* The rest of one iteration: anchor, sub-grid, tidy, rawdataList.append. *)
Adapted(rd, g, varName, f) ==
    CASE rd = "readYearMonth" -> YearMonthSeries(g, DisplayName(g, varName), f)
      [] rd = "readMonthYear" -> MonthYearSeries(g, DisplayName(g, varName), f)
      [] rd = "readIndicatorYear" -> IndicatorYearFrame(g, varName, f)

Adapt ==
    /\ pc = "loop"
    /\ rawdata # NoGrid
    /\ log' = Append(log, [op |-> "adapt", id |-> series[k + 1].id])
    /\ \/ /\ ~HasMatch(AnchorPattern(reader), Column(rawdata, AnchorColumn(reader)))
          /\ Raise("UnrecognizedLayout")
       \/ /\ HasMatch(AnchorPattern(reader), Column(rawdata, AnchorColumn(reader)))
          /\ ~SupportedFrequency(NativeFrequency(reader), freq)
          /\ Raise("UnsupportedFrequency")
       \/ /\ HasMatch(AnchorPattern(reader), Column(rawdata, AnchorColumn(reader)))
          /\ SupportedFrequency(NativeFrequency(reader), freq)
          /\ rawdataList' = Append(rawdataList,
                                   Adapted(reader, rawdata, series[k + 1].name, freq))
          /\ k' = k + 1
          /\ rawdata' = NoGrid
          /\ UNCHANGED <<pc, err, result>>
    /\ UNCHANGED <<reader, request, freq, series, fetched>>

(* data = pd.concat(rawdataList, axis=1); return data *)
Return ==
    /\ pc = "loop"
    /\ LoopFinished
    /\ rawdata = NoGrid
    /\ result' = concat(rawdataList)
    /\ pc' = "done"
    /\ log' = Append(log, [op |-> "merge", id |-> 0])
    /\ UNCHANGED <<reader, request, freq, series, k, rawdata, rawdataList, fetched, err>>

Next == Resolve \/ DownloadChart \/ Adapt \/ Return

Spec == Init /\ [][Next]_vars
----------------------------------------------------------------------------
(* Properties.  What follows reads the grids that were fetched (fetched[i]
   is the grid of the i-th identifier) and states what the readers made of
   them, by cell position. *)

Done == pc = "done"

(* The value a cell's text denotes. *)
CellValue(cell) == IF cell = "" THEN Missing ELSE Num(NumberOf[cell])

NameOf(i) == IF series[i].name # "" THEN series[i].name ELSE fetched[i][1][1]

(* The value the i-th adapted input has in column c at time stamp t. *)
InputAt(i, c, t) ==
    LET f == rawdataList[i]
        at == {q \in DOMAIN f.index : f.index[q] = t}
    IN IF at = {} THEN Missing ELSE f.cols[c].vals[CHOOSE q \in at : TRUE]

RECURSIVE ColumnsBefore(_)
ColumnsBefore(i) == IF i = 1 THEN 0 ELSE ColumnsBefore(i - 1) + Len(rawdataList[i - 1].cols)

(* C1: readYearMonth and readMonthYear return a single series for a request
   that is a single identifier and a table for a request that is a mapping. *)
C1_ShapeFollowsRequest ==
    (Done /\ reader \in {"readYearMonth", "readMonthYear"}) =>
        /\ request.shape = "int" => result.kind = "series"
        /\ request.shape = "dict" => result.kind = "frame"

(* C2, as claimed: no reader returns a table in which two columns have the
   same name. *)
C2_DistinctColumnNames ==
    Done => \A i, j \in DOMAIN result.cols :
                i # j => result.cols[i].name # result.cols[j].name

(* C2, amended: the table readYearMonth and readMonthYear return has one
   column per identifier, in request order, under the identifier's display
   name as it is (the caller's, else the source title) and holding that
   identifier's own series; two identifiers with one display name give two
   columns of that same name. *)
C2_BothColumnsKept ==
    (Done /\ reader \in {"readYearMonth", "readMonthYear"}) =>
        /\ Len(result.cols) = Len(series)
        /\ \A i \in DOMAIN series :
              /\ result.cols[i].name = NameOf(i)
              /\ \A p \in DOMAIN result.index :
                    result.cols[i].vals[p] = InputAt(i, 1, result.index[p])

C2_SameNameTwice ==
    /\ Done
    /\ reader = "readYearMonth"
    /\ Len(series) = 2
    /\ series[1].name = ""
    /\ series[2].name = "M1"
    /\ result.cols[1].name = "M1"
    /\ result.cols[2].name = "M1"
    /\ result.cols[1].vals # result.cols[2].vals

(* C3: the merged table's time axis is the union of the inputs' time stamps,
   strictly increasing; each cell holds its series' value at that time stamp,
   or is missing when the series has no such time stamp; a single series is
   reproduced. *)
C3_MergeIsOuterUnion ==
    Done =>
        /\ \A p \in 1..(Len(result.index) - 1) : result.index[p] < result.index[p + 1]
        /\ Range(result.index) = UNION {Range(rawdataList[i].index) : i \in DOMAIN rawdataList}
        /\ Len(result.cols) = ColumnsBefore(Len(rawdataList) + 1)
        /\ \A i \in DOMAIN rawdataList : \A c \in DOMAIN rawdataList[i].cols :
              /\ Len(result.cols[ColumnsBefore(i) + c].vals) = Len(result.index)
              /\ \A p \in DOMAIN result.index :
                    result.cols[ColumnsBefore(i) + c].vals[p] = InputAt(i, c, result.index[p])
        /\ Len(rawdataList) = 1 =>
              /\ result.index = rawdataList[1].index
              /\ \A c \in DOMAIN result.cols : result.cols[c].vals = rawdataList[1].cols[c].vals

C3_OverlappingInputs ==
    /\ Done
    /\ Len(rawdataList) = 2
    /\ Range(rawdataList[1].index) \cap Range(rawdataList[2].index) # {}
    /\ Range(rawdataList[1].index) \ Range(rawdataList[2].index) # {}
    /\ Range(rawdataList[2].index) \ Range(rawdataList[1].index) # {}
    /\ \E p \in DOMAIN result.index :
          /\ IsMissing(result.cols[1].vals[p])
          /\ result.index[p] \in Range(rawdataList[1].index)
(* The 1-based row of the first cell of column c (1-based) equal to a token. *)
FirstRowWith(g, c, token) ==
    CHOOSE r \in DOMAIN g : g[r][c] = token /\ \A q \in 1..(r - 1) : g[q][c] # token

FourDigitYears == {NumberText[y] : y \in 1000..MaxNumber}

FirstYearRow(g) ==
    CHOOSE r \in DOMAIN g :
        g[r][2] \in FourDigitYears /\ \A q \in 1..(r - 1) : g[q][2] \notin FourDigitYears

(* C4: readYearMonth with no target frequency gives one point per cell of the
   sub-grid below the 'Enero' row, in row-major order, the k-th dated the k-th
   month from January of the year written in the first column of the first
   data row; an empty cell gives a missing value. *)
C4_YearMonthRowMajor ==
    (reader = "readYearMonth" /\ freq = "") =>
        \A i \in DOMAIN rawdataList :
            LET g == fetched[i]
                s == rawdataList[i]
                r == FirstRowWith(g, 2, "Enero")
                w == Len(g[1]) - 1
                n == Len(g) - r
            IN /\ Len(s.cols) = 1
               /\ Len(s.index) = n * w
               /\ Len(s.cols[1].vals) = n * w
               /\ \A pos \in 1..(n * w) :
                     /\ s.cols[1].vals[pos]
                           = CellValue(g[r + 1 + ((pos - 1) \div w)][2 + ((pos - 1) % w)])
                     /\ s.index[pos] = 12 * NumberOf[g[r + 1][1]] + (pos - 1)
               /\ \A pos \in 1..(n * w - 1) : s.index[pos + 1] = s.index[pos] + 1

C4_TwoYearRowsWithGap ==
    /\ Done
    /\ reader = "readYearMonth"
    /\ freq = ""
    /\ Len(fetched[1]) - FirstRowWith(fetched[1], 2, "Enero") = 2
    /\ Len(fetched[1][1]) = 4
    /\ \E pos \in 1..6 : IsMissing(rawdataList[1].cols[1].vals[pos])
    /\ rawdataList[1].cols[1].vals[6] = Num(60)

(* C5: readIndicatorYear gives one column per indicator row below the year
   header, named alias + indicator name, and one row per year column, dated
   31 December of consecutive years from the anchor year; cell (year j,
   indicator c) is the grid's value of that indicator in that year column. *)
C5_IndicatorYearTable ==
    (reader = "readIndicatorYear" /\ freq \in {"", "A"}) =>
        /\ \A i \in DOMAIN rawdataList :
            LET g == fetched[i]
                t == rawdataList[i]
                r == FirstYearRow(g)
                n == Len(g[1]) - 1
                kk == Len(g) - r
            IN /\ Len(t.cols) = kk
               /\ Len(t.index) = n
               /\ \A j \in 1..n : t.index[j] = 12 * (NumberOf[g[r][2]] + (j - 1)) + 11
               /\ \A c \in 1..kk :
                     /\ t.cols[c].name = series[i].name \o g[r + c][1]
                     /\ Len(t.cols[c].vals) = n
                     /\ \A j \in 1..n : t.cols[c].vals[j] = CellValue(g[r + c][1 + j])
        /\ (Done /\ Len(series) = 1) =>
              /\ result.kind = "frame"
              /\ result.index = rawdataList[1].index
              /\ result.cols = rawdataList[1].cols

C5_TwoIndicatorsTwoYears ==
    /\ Done
    /\ reader = "readIndicatorYear"
    /\ freq = ""
    /\ Len(series) = 1
    /\ series[1].name = "Real_"
    /\ result.index = <<12 * FirstYear + 11, 12 * (FirstYear + 1) + 11>>
    /\ Len(result.cols) = 2
    /\ result.cols[1].name = "Real_Agriculture"
    /\ result.cols[2].name = "Real_Industry"
    /\ result.cols[2].vals = <<Num(30), Num(40)>>

(* C8: readMonthYear with no target frequency takes the start year from the
   second column of the row above the 'Enero' row and gives the sub-grid's
   cells year column by year column, each top to bottom, on consecutive months
   from January of the start year: month row m of the y-th year column is
   dated (start year + y, month m + 1). *)
C8_MonthYearColumnMajor ==
    (reader = "readMonthYear" /\ freq = "") =>
        \A i \in DOMAIN rawdataList :
            LET g == fetched[i]
                s == rawdataList[i]
                r == FirstRowWith(g, 1, "Enero")
                w == Len(g[1]) - 1
                n == Len(g) - r + 1
                start == NumberOf[g[r - 1][2]]
            IN /\ Len(s.cols) = 1
               /\ Len(s.index) = n * w
               /\ Len(s.cols[1].vals) = n * w
               /\ \A y \in 0..(w - 1) : \A m \in 0..(n - 1) :
                     /\ s.cols[1].vals[y * n + m + 1] = CellValue(g[r + m][2 + y])
                     /\ s.index[y * n + m + 1] = 12 * start + (y * n + m)
                     /\ s.index[y * n + m + 1] = 12 * (start + y) + m

C8_TwoYearColumns ==
    /\ Done
    /\ reader = "readMonthYear"
    /\ freq = ""
    /\ Len(fetched[1][1]) = 3
    /\ fetched[1][1][1] = "IPC"
    /\ rawdataList[1].index[13] = 12 * (FirstYear + 1)
    /\ rawdataList[1].cols[1].vals[13] = Num(20)
    /\ IsMissing(rawdataList[1].cols[1].vals[1])
AnchorOccurs(rd, g) ==
    CASE rd = "readYearMonth" -> \E r \in DOMAIN g : g[r][2] = "Enero"
      [] rd = "readMonthYear" -> \E r \in DOMAIN g : g[r][1] = "Enero"
      [] rd = "readIndicatorYear" -> \E r \in DOMAIN g : g[r][2] \in FourDigitYears

(* C6: a fetched grid in which the reader's anchor does not occur is never
   adapted: once its iteration has run, the call has ended in the error
   UnrecognizedLayout with nothing returned. *)
C6_NoAnchorIsAnError ==
    \A i \in DOMAIN fetched :
        ~AnchorOccurs(reader, fetched[i]) =>
            /\ i = Len(fetched)
            /\ Len(rawdataList) = i - 1
            /\ \/ pc = "loop" /\ rawdata = fetched[i]
               \/ pc = "error" /\ err = "UnrecognizedLayout" /\ result = NoResult

C6_SecondGridUnrecognized ==
    /\ pc = "error"
    /\ err = "UnrecognizedLayout"
    /\ reader = "readIndicatorYear"
    /\ Len(fetched) = 2
    /\ AnchorOccurs(reader, fetched[1])
    /\ ~AnchorOccurs(reader, fetched[2])
    /\ result = NoResult

(* The cells of the sub-grid in time order, and the first month, read off the
   grid by position. *)
CellsInTimeOrder(rd, g) ==
    IF rd = "readYearMonth"
    THEN LET r == FirstRowWith(g, 2, "Enero")
             w == Len(g[1]) - 1
         IN [pos \in 1..((Len(g) - r) * w) |->
                g[r + 1 + ((pos - 1) \div w)][2 + ((pos - 1) % w)]]
    ELSE LET r == FirstRowWith(g, 1, "Enero")
             n == Len(g) - r + 1
         IN [pos \in 1..(n * (Len(g[1]) - 1)) |->
                g[r + ((pos - 1) % n)][2 + ((pos - 1) \div n)]]

FirstMonth(rd, g) ==
    IF rd = "readYearMonth"
    THEN 12 * NumberOf[g[FirstRowWith(g, 2, "Enero") + 1][1]]
    ELSE 12 * NumberOf[g[FirstRowWith(g, 1, "Enero") - 1][2]]

SameWindow(t, u, f) ==
    IF f = "Q" THEN t \div 12 = u \div 12 /\ (t % 12) \div 3 = (u % 12) \div 3
    ELSE t \div 12 = u \div 12

IsWindowEnd(u, f) == IF f = "Q" THEN (u % 12) % 3 = 2 ELSE u % 12 = 11

RECURSIVE SumOver(_, _)
SumOver(vals, S) ==
    IF S = {} THEN 0
    ELSE LET x == CHOOSE y \in S : TRUE IN vals[x][1] + SumOver(vals, S \ {x})

(* C7: with a target frequency and the default aggregation, the monthly
   points are grouped by calendar quarter or year and one point is given per
   window, at the window's end: missing when every input of the window is
   missing, else the mean of the inputs that are not; with no target
   frequency the monthly points are returned as they are. *)
C7_ResampleMeanSkipsMissing ==
    (reader \in {"readYearMonth", "readMonthYear"}) =>
        \A i \in DOMAIN rawdataList :
            LET s      == rawdataList[i]
                cells  == CellsInTimeOrder(reader, fetched[i])
                vals   == [pos \in DOMAIN cells |-> CellValue(cells[pos])]
                stamps == [pos \in DOMAIN cells |-> FirstMonth(reader, fetched[i]) + pos - 1]
                out    == s.cols[1].vals
            IN IF freq = ""
               THEN s.index = stamps /\ out = vals
               ELSE /\ Len(out) = Len(s.index)
                    /\ \A p \in 1..(Len(s.index) - 1) : s.index[p] < s.index[p + 1]
                    /\ \A pos \in DOMAIN stamps :
                          \E p \in DOMAIN s.index : SameWindow(stamps[pos], s.index[p], freq)
                    /\ \A p \in DOMAIN s.index :
                          LET ins  == {pos \in DOMAIN stamps :
                                          SameWindow(stamps[pos], s.index[p], freq)}
                              pres == {pos \in ins : ~IsMissing(vals[pos])}
                          IN /\ IsWindowEnd(s.index[p], freq)
                             /\ ins # {}
                             /\ pres = {} => out[p] = Missing
                             /\ pres # {} =>
                                   /\ out[p][2] > 0
                                   /\ out[p][1] * Cardinality(pres)
                                         = out[p][2] * SumOver(vals, pres)

C7_TenTwentyMissingGivesFifteen ==
    /\ Done
    /\ reader = "readYearMonth"
    /\ freq = "Q"
    /\ CellsInTimeOrder(reader, fetched[1]) = <<"10", "20", "">>
    /\ result.cols[1].vals = <<Num(15)>>
    /\ result.index = <<12 * (FirstYear + 1) + 2>>

Fetches == SelectSeq(log, LAMBDA e : e.op = "fetch")

ExpectedLog ==
    Flat([i \in DOMAIN series |->
            <<[op |-> "fetch", id |-> series[i].id], [op |-> "adapt", id |-> series[i].id]>>])
    \o <<[op |-> "merge", id |-> 0]>>

IsPrefix(a, b) == Len(a) <= Len(b) /\ a = SubSeq(b, 1, Len(a))

(* C9: the calls of one read are, in this order, for each identifier of the
   request in request order one fetch and then its adaptation, and after the
   last identifier the merge; a completed read has fetched each identifier
   exactly once. *)
C9_FetchAdaptThenMerge ==
    /\ pc # "call" => IsPrefix(log, ExpectedLog)
    /\ pc = "call" => log = <<>>
    /\ Done => /\ log = ExpectedLog
               /\ Len(Fetches) = Len(series)
               /\ \A i \in DOMAIN series : Fetches[i].id = series[i].id

C9_TwoIdentifiersRead ==
    /\ Done
    /\ Len(series) = 2
    /\ series[1].id = 2
    /\ Len(log) = 5
    /\ log[3] = [op |-> "fetch", id |-> 1]

FailureOf(rd, g, f) ==
    IF ~AnchorOccurs(rd, g) THEN "UnrecognizedLayout"
    ELSE IF rd = "readIndicatorYear" /\ f = "Q" THEN "UnsupportedFrequency"
    ELSE ""

(* C10: when the fetch or the adaptation of an identifier fails, the read
   has failed with that error, nothing is returned, and no identifier after
   the failing one has been fetched; a read that returns a table has fetched
   and adapted every identifier without a failure. *)
C10_FailureFailsTheRead ==
    /\ pc = "error" =>
          /\ result = NoResult
          /\ Len(Fetches) = k + 1
          /\ Len(rawdataList) = k
          /\ IF Len(fetched) = k THEN err = "SourceUnavailable"
             ELSE /\ Len(fetched) = k + 1
                  /\ err # ""
                  /\ err = FailureOf(reader, fetched[k + 1], freq)
    /\ Done =>
          /\ err = ""
          /\ Len(Fetches) = Len(series)
          /\ Len(fetched) = Len(series)
          /\ Len(rawdataList) = Len(series)
          /\ \A i \in DOMAIN fetched : FailureOf(reader, fetched[i], freq) = ""

C10_SecondOfTwoFails ==
    /\ pc = "error"
    /\ Len(series) = 2
    /\ k = 1
    /\ Len(rawdataList) = 1
    /\ err = "SourceUnavailable"
    /\ result = NoResult
====
